---- MODULE Spec2Model ----
(***************************************************************************)
(* Model of webhook_app_final.py: the POST /webhook/ocr handler, the lazy  *)
(* EasyOCR reader, and the regex line-item extractor.                      *)
(*                                                                         *)
(* Text is a sequence of one-character strings.  The three regular         *)
(* expressions are run by a backtracking matcher with the priority order   *)
(* of Python's re module (greedy: longest first, lazy: shortest first,     *)
(* optional group: taken first).                                           *)
(***************************************************************************)
EXTENDS Integers, Sequences, FiniteSets, TLC

----------------------------------------------------------------------------
(* Bounds of the model *)

\* number of requests the server receives
NumReqs == 2
\* most pages a PDF has in Spec
MaxPages == 2
\* most pages a PDF has in SpecAggregate
MaxAggPages == 10
\* most text parts concatenated to a page text in SpecAggregate
MaxParts == 3

----------------------------------------------------------------------------
(* Characters *)

Lowercase ==
  {"a","b","c","d","e","f","g","h","i","j","k","l","m",
   "n","o","p","q","r","s","t","u","v","w","x","y","z"}

Uppercase ==
  {"A","B","C","D","E","F","G","H","I","J","K","L","M",
   "N","O","P","Q","R","S","T","U","V","W","X","Y","Z"}

DigitChars == <<"0","1","2","3","4","5","6","7","8","9">>

IsDigit(c) == \E i \in 1..10 : DigitChars[i] = c

DigitVal(c) == (CHOOSE i \in 1..10 : DigitChars[i] = c) - 1

\* \s of the re module, on the characters the model uses
IsSpace(c) == c \in {" ", "\n", "\t", "\r"}

\* [A-Za-z0-9\-\(\)\/\., ]
PharmacyNameChar(c) ==
  \/ c \in Lowercase \/ c \in Uppercase \/ IsDigit(c)
  \/ c \in {"-", "(", ")", "/", ".", ",", " "}

\* [A-Za-z0-9\-\|\.\(\)\/, ]
HospitalNameChar(c) ==
  \/ c \in Lowercase \/ c \in Uppercase \/ IsDigit(c)
  \/ c \in {"-", "|", ".", "(", ")", "/", ",", " "}

InClass(cls, c) ==
  CASE cls = "d" -> IsDigit(c)
    [] cls = "s" -> IsSpace(c)
    [] cls = "pharm" -> PharmacyNameChar(c)
    [] cls = "hosp" -> HospitalNameChar(c)

\* str.lower() on one character
LowerChar(c) ==
  CASE c = "A" -> "a" [] c = "B" -> "b" [] c = "C" -> "c" [] c = "D" -> "d"
    [] c = "E" -> "e" [] c = "F" -> "f" [] c = "G" -> "g" [] c = "H" -> "h"
    [] c = "I" -> "i" [] c = "J" -> "j" [] c = "K" -> "k" [] c = "L" -> "l"
    [] c = "M" -> "m" [] c = "N" -> "n" [] c = "O" -> "o" [] c = "P" -> "p"
    [] c = "Q" -> "q" [] c = "R" -> "r" [] c = "S" -> "s" [] c = "T" -> "t"
    [] c = "U" -> "u" [] c = "V" -> "v" [] c = "W" -> "w" [] c = "X" -> "x"
    [] c = "Y" -> "y" [] c = "Z" -> "z" [] OTHER -> c

Lower(s) == [i \in 1..Len(s) |-> LowerChar(s[i])]

----------------------------------------------------------------------------
(* The regular expressions of extract_bill_items_regex *)

\* "no upper limit" of a repetition
NoMax == 0

Rep(cls, lo, hi, greedy) ==
  [k |-> "rep", cls |-> cls, min |-> lo, max |-> hi, greedy |-> greedy,
   n |-> 0, g |-> "", c |-> ""]
Lit(c) ==
  [k |-> "lit", cls |-> "", min |-> 0, max |-> 0, greedy |-> TRUE,
   n |-> 0, g |-> "", c |-> c]
\* (?: the next n atoms )?
Opt(n) ==
  [k |-> "opt", cls |-> "", min |-> 0, max |-> 0, greedy |-> TRUE,
   n |-> n, g |-> "", c |-> ""]
GroupStart(g) ==
  [k |-> "gs", cls |-> "", min |-> 0, max |-> 0, greedy |-> TRUE,
   n |-> 0, g |-> g, c |-> ""]
GroupEnd(g) ==
  [k |-> "ge", cls |-> "", min |-> 0, max |-> 0, greedy |-> TRUE,
   n |-> 0, g |-> g, c |-> ""]

\* \s+
Spaces == <<Rep("s", 1, NoMax, TRUE)>>

\* (?P<g>\d+(?:\.\d+)?)
Number(g) ==
  <<GroupStart(g), Rep("d", 1, NoMax, TRUE),
    Opt(2), Lit("."), Rep("d", 1, NoMax, TRUE), GroupEnd(g)>>

\* (?P<name>[cls]+?)
Name(cls) == <<GroupStart("name"), Rep(cls, 1, NoMax, FALSE), GroupEnd("name")>>

NumberTriple ==
  Number("qty") \o Spaces \o Number("rate") \o Spaces \o Number("amount")

PharmacyPattern ==
  <<Opt(2), Rep("d", 1, NoMax, TRUE), Rep("s", 1, NoMax, TRUE)>>
    \o Name("pharm") \o Spaces \o NumberTriple

HospitalPattern == Name("hosp") \o Spaces \o NumberTriple

\* \d{1,2}\/\d{1,2}\/\d{2,4}
DateToken ==
  <<Rep("d", 1, 2, TRUE), Lit("/"), Rep("d", 1, 2, TRUE), Lit("/"),
    Rep("d", 2, 4, TRUE)>>

InvestigationPattern ==
  Name("pharm") \o Spaces \o DateToken \o Spaces \o NumberTriple

patterns == <<PharmacyPattern, HospitalPattern, InvestigationPattern>>

----------------------------------------------------------------------------
(* Backtracking matcher *)

Groups == {"name", "qty", "rate", "amount"}

NoCaps == [g \in Groups |-> <<0, 0>>]

NoMatch == [ok |-> FALSE, start |-> 0, end |-> 0, caps |-> NoCaps]

RECURSIVE RunLen(_, _, _)
\* how many characters from position p on are in class cls
RunLen(text, p, cls) ==
  IF p <= Len(text) /\ InClass(cls, text[p])
  THEN 1 + RunLen(text, p + 1, cls)
  ELSE 0

RECURSIVE MatchFrom(_, _, _, _, _), TryRep(_, _, _, _, _, _, _)
\* the first match, in backtracking order, of atoms i.. of pat at position p
MatchFrom(text, pat, i, p, caps) ==
  IF i > Len(pat)
  THEN [ok |-> TRUE, start |-> 0, end |-> p, caps |-> caps]
  ELSE
    LET a == pat[i] IN
    CASE a.k = "lit" ->
           IF p <= Len(text) /\ text[p] = a.c
           THEN MatchFrom(text, pat, i + 1, p + 1, caps)
           ELSE NoMatch
      [] a.k = "gs" ->
           MatchFrom(text, pat, i + 1, p, [caps EXCEPT ![a.g] = <<p, p>>])
      [] a.k = "ge" ->
           MatchFrom(text, pat, i + 1, p,
                     [caps EXCEPT ![a.g] = <<caps[a.g][1], p>>])
      [] a.k = "opt" ->
           LET taken == MatchFrom(text, pat, i + 1, p, caps) IN
           IF taken.ok THEN taken
           ELSE MatchFrom(text, pat, i + 1 + a.n, p, caps)
      [] a.k = "rep" ->
           LET run == RunLen(text, p, a.cls)
               hi == IF a.max = NoMax \/ run < a.max THEN run ELSE a.max
           IN IF hi < a.min THEN NoMatch
              ELSE TryRep(text, pat, i, p, caps,
                          IF a.greedy THEN hi ELSE a.min, hi)

\* atom i repeated k times, then the rest; on failure the next count
TryRep(text, pat, i, p, caps, k, hi) ==
  LET a == pat[i]
      r == MatchFrom(text, pat, i + 1, p + k, caps)
  IN IF r.ok THEN r
     ELSE IF a.greedy
          THEN IF k > a.min THEN TryRep(text, pat, i, p, caps, k - 1, hi)
               ELSE NoMatch
          ELSE IF k < hi THEN TryRep(text, pat, i, p, caps, k + 1, hi)
               ELSE NoMatch

RECURSIVE Search(_, _, _)
\* pattern.search(text, s): the match at the leftmost start position >= s
Search(text, pat, s) ==
  IF s > Len(text) + 1 THEN NoMatch
  ELSE LET r == MatchFrom(text, pat, 1, s, NoCaps) IN
       IF r.ok THEN [r EXCEPT !.start = s]
       ELSE Search(text, pat, s + 1)

RECURSIVE FindIterFrom(_, _, _)
FindIterFrom(text, pat, s) ==
  LET m == Search(text, pat, s) IN
  IF ~m.ok THEN <<>>
  ELSE <<m>> \o FindIterFrom(text, pat, IF m.end > m.start THEN m.end ELSE m.end + 1)

\* pattern.finditer(text): the non-overlapping matches, left to right
FindIter(text, pat) == FindIterFrom(text, pat, 1)

\* m.group(g)
Group(text, m, g) == SubSeq(text, m.caps[g][1], m.caps[g][2] - 1)

----------------------------------------------------------------------------
(* Conversions *)

RECURSIVE CollapseSpaces(_)
\* re.sub(r"\s+", " ", s)
CollapseSpaces(s) ==
  IF s = <<>> THEN <<>>
  ELSE IF IsSpace(Head(s))
       THEN <<" ">> \o CollapseSpaces(SubSeq(s, 1 + RunLen(s, 1, "s"), Len(s)))
       ELSE <<Head(s)>> \o CollapseSpaces(Tail(s))

RECURSIVE LStrip(_)
LStrip(s) == IF s # <<>> /\ IsSpace(Head(s)) THEN LStrip(Tail(s)) ELSE s

RECURSIVE RStrip(_)
RStrip(s) ==
  IF s # <<>> /\ IsSpace(s[Len(s)]) THEN RStrip(SubSeq(s, 1, Len(s) - 1)) ELSE s

\* str.strip()
Strip(s) == RStrip(LStrip(s))

RECURSIVE DigitsValue(_)
\* the number a digit string denotes
DigitsValue(s) ==
  IF s = <<>> THEN 0
  ELSE 10 * DigitsValue(SubSeq(s, 1, Len(s) - 1)) + DigitVal(s[Len(s)])

RECURSIVE Reduce(_)
\* a decimal <<m, e>> = m / 10^e in lowest terms of the power of ten
Reduce(d) ==
  IF d[2] > 0 /\ d[1] % 10 = 0 THEN Reduce(<<d[1] \div 10, d[2] - 1>>) ELSE d

\* float(s) for s matching \d+(?:\.\d+)? : the value as mantissa and decimal exponent
Float(s) ==
  LET dot == IF \E i \in 1..Len(s) : s[i] = "."
             THEN CHOOSE i \in 1..Len(s) : s[i] = "."
             ELSE Len(s) + 1
      digits == SubSeq(s, 1, dot - 1) \o SubSeq(s, dot + 1, Len(s))
  IN Reduce(<<DigitsValue(digits), IF dot > Len(s) THEN 0 ELSE Len(s) - dot>>)

RECURSIVE Str(_)
\* str(n) for n >= 0
Str(n) ==
  IF n < 10 THEN <<DigitChars[n + 1]>>
  ELSE Str(n \div 10) \o <<DigitChars[(n % 10) + 1]>>

----------------------------------------------------------------------------
(* extract_bill_items_regex *)

\* the body of the inner loop: the dict appended for match m
LineItem(text, m) ==
  [item_name |-> Strip(CollapseSpaces(Group(text, m, "name"))),
   item_quantity |-> Float(Group(text, m, "qty")),
   item_rate |-> Float(Group(text, m, "rate")),
   item_amount |-> Float(Group(text, m, "amount"))]

AppendItemOnce(items, item) ==
  IF \E j \in 1..Len(items) : items[j] = item THEN items ELSE Append(items, item)

\* items.append(...)
AppendItem(items, item) == Append(items, item)

RECURSIVE MatchLoop(_, _, _, _)
\* for m in pattern.finditer(text): ... items.append(...)
MatchLoop(text, ms, j, items) ==
  IF j > Len(ms) THEN items
  ELSE MatchLoop(text, ms, j + 1, AppendItem(items, LineItem(text, ms[j])))

RECURSIVE PatternLoop(_, _, _)
\* for pattern in patterns: ...
PatternLoop(text, i, items) ==
  IF i > Len(patterns) THEN items
  ELSE PatternLoop(text, i + 1,
                   MatchLoop(text, FindIter(text, patterns[i]), 1, items))

extract_bill_items_regex(text) == PatternLoop(text, 1, <<>>)

----------------------------------------------------------------------------
(* Config and allowed_file *)

UPLOAD_FOLDER == "uploads"

ALLOWED_EXTENSIONS ==
  {<<"p","d","f">>, <<"p","n","g">>, <<"j","p","g">>, <<"j","p","e","g">>}

HasDot(s) == \E i \in 1..Len(s) : s[i] = "."

LastDot(s) == CHOOSE i \in 1..Len(s) : s[i] = "." /\ \A j \in (i+1)..Len(s) : s[j] # "."

\* filename.rsplit(".", 1)[1].lower()
Extension(s) == Lower(SubSeq(s, LastDot(s) + 1, Len(s)))

allowed_file(fname) == HasDot(fname) /\ Extension(fname) \in ALLOWED_EXTENSIONS

----------------------------------------------------------------------------
(* Inputs *)

Reqs == 1..NumReqs

ReportDocx == <<"r","e","p","o","r","t",".","d","o","c","x">>
NoDotName == <<"p","d","f">>
BillPdf == <<"b","i","l","l",".","p","d","f">>
ScanJpg == <<"s","c","a","n",".","v","1",".","J","P","G">>

\* the filenames clients upload
Filenames == {ReportDocx, NoDotName, BillPdf, ScanJpg}

\* a bill line that the pharmacy and the hospital pattern match
TextLine == <<"a"," ","2"," ","1"," ","3">>

\* what OCR recognizes on a page, in Spec
PageTexts == {TextLine}

----------------------------------------------------------------------------
(* State *)

VARIABLES
  HAS_EASYOCR,       \* set at import: whether easyocr could be imported
  ocr_reader,        \* the global _ocr_reader: 0 is None, k > 0 the k-th Reader
  constructed,       \* how many easyocr.Reader objects have been constructed
  uploads,           \* the files in UPLOAD_FOLDER, by name
  running,           \* the request whose coroutine the event loop runs (0: none)
  pc,                \* each request's position in ocr_webhook
  filename,          \* file.filename
  body_read,         \* whether file.read() was called
  npages,            \* len(pdf_doc)
  reader,            \* the local reader of simple_pdf_ocr / simple_image_ocr (-1: unset)
  extracted,         \* all_text / extracted: the (key, text) pairs in insertion order
  page_items,
  total_item_count,
  exc,               \* the exception raised inside the try block
  resp,              \* the response sent
  raced              \* whether a Reader was constructed while another request was in flight

vars ==
  <<HAS_EASYOCR, ocr_reader, constructed, uploads, running, pc, filename,
    body_read, npages, reader, extracted, page_items, total_item_count,
    exc, resp, raced>>

NoExc == [type |-> "none", status |-> 0, detail |-> ""]
NoData == [pagewise_line_items |-> <<>>, total_item_count |-> -1]
NoResp == [status |-> 0, is_success |-> FALSE,
           detail |-> [code |-> <<>>, text |-> ""], data |-> NoData]

\* str(e): starlette's HTTPException prints "<status>: <detail>"
StrExc(e) ==
  IF e.type = "HTTPException"
  THEN [code |-> Str(e.status), text |-> e.detail]
  ELSE [code |-> <<>>, text |-> e.detail]

Init ==
  /\ HAS_EASYOCR \in BOOLEAN
  /\ ocr_reader = 0
  /\ constructed = 0
  /\ uploads = {}
  /\ running = 0
  /\ pc = [r \in Reqs |-> "new"]
  /\ filename = [r \in Reqs |-> <<>>]
  /\ body_read = [r \in Reqs |-> FALSE]
  /\ npages = [r \in Reqs |-> 0]
  /\ reader = [r \in Reqs |-> -1]
  /\ extracted = [r \in Reqs |-> <<>>]
  /\ page_items = [r \in Reqs |-> <<>>]
  /\ total_item_count = [r \in Reqs |-> 0]
  /\ exc = [r \in Reqs |-> NoExc]
  /\ resp = [r \in Reqs |-> NoResp]
  /\ raced = FALSE

----------------------------------------------------------------------------
(* The event loop: ocr_webhook is a coroutine (async def), so a request keeps *)
(* the loop from one await to the next                                        *)

SuspendsAnywhere(p) == TRUE

\* the positions at which the coroutine gives the event loop back
Suspends(p) == p \in {"await_read", "done"}

Goto(r, p) ==
  /\ pc' = [pc EXCEPT ![r] = p]
  /\ running' = IF Suspends(p) THEN 0 ELSE r

\* an exception raised in the try block goes to the except clause
Raise(r, e) ==
  /\ exc' = [exc EXCEPT ![r] = e]
  /\ Goto(r, "except")

Fails(r, op) == Raise(r, [type |-> "Exception", status |-> 0, detail |-> op])

\* the event loop starts the handler of a new request
Start(r) ==
  /\ running = 0
  /\ pc[r] = "new"
  /\ \E f \in Filenames : filename' = [filename EXCEPT ![r] = f]
  /\ Goto(r, "check")
  /\ UNCHANGED <<HAS_EASYOCR, ocr_reader, constructed, uploads, body_read, npages,
                 reader, extracted, page_items, total_item_count, exc, resp, raced>>

\* the event loop resumes a suspended coroutine
Resume(r) ==
  /\ running = 0
  /\ pc[r] \notin {"new", "done"}
  /\ running' = r
  /\ UNCHANGED <<HAS_EASYOCR, ocr_reader, constructed, uploads, pc, filename,
                 body_read, npages, reader, extracted, page_items,
                 total_item_count, exc, resp, raced>>

----------------------------------------------------------------------------
(* ocr_webhook *)

\* a handler that stores the upload before it looks at the extension
CheckAfterSave(r) ==
  /\ running = r
  /\ pc[r] = "check"
  /\ uploads' = uploads \cup {filename[r]}
  /\ IF allowed_file(filename[r])
     THEN Goto(r, "dispatch") /\ exc' = exc
     ELSE Raise(r, [type |-> "HTTPException", status |-> 400,
                    detail |-> "Unsupported file type"])
  /\ UNCHANGED <<HAS_EASYOCR, ocr_reader, constructed, filename, body_read,
                 npages, reader, extracted, page_items, total_item_count, resp, raced>>

\* if not allowed_file(file.filename): raise HTTPException(status_code=400, ...)
Check(r) ==
  /\ running = r
  /\ pc[r] = "check"
  /\ IF allowed_file(filename[r])
     THEN Goto(r, "read") /\ exc' = exc
     ELSE Raise(r, [type |-> "HTTPException", status |-> 400,
                    detail |-> "Unsupported file type"])
  /\ UNCHANGED <<HAS_EASYOCR, ocr_reader, constructed, uploads, filename,
                 body_read, npages, reader, extracted, page_items,
                 total_item_count, resp, raced>>

\* file_bytes = await file.read(): the call, up to the await
Read(r) ==
  /\ running = r
  /\ pc[r] = "read"
  /\ body_read' = [body_read EXCEPT ![r] = TRUE]
  /\ Goto(r, "await_read")
  /\ UNCHANGED <<HAS_EASYOCR, ocr_reader, constructed, uploads, filename, npages,
                 reader, extracted, page_items, total_item_count, exc, resp, raced>>

\* the await returns
ReadDone(r) ==
  /\ running = r
  /\ pc[r] = "await_read"
  /\ Goto(r, "write")
  /\ UNCHANGED <<HAS_EASYOCR, ocr_reader, constructed, uploads, filename,
                 body_read, npages, reader, extracted, page_items,
                 total_item_count, exc, resp, raced>>

\* with open(file_path, "wb") as f: f.write(file_bytes)
Write(r) ==
  /\ running = r
  /\ pc[r] = "write"
  /\ \/ /\ uploads' = uploads \cup {filename[r]}
        /\ Goto(r, "dispatch")
        /\ exc' = exc
     \/ /\ Fails(r, "write")
        /\ uploads' = uploads
  /\ UNCHANGED <<HAS_EASYOCR, ocr_reader, constructed, filename, body_read,
                 npages, reader, extracted, page_items, total_item_count, resp, raced>>

\* ext = ...; if ext == "pdf": simple_pdf_ocr(file_path) else: simple_image_ocr(file_bytes)
Dispatch(r) ==
  /\ running = r
  /\ pc[r] = "dispatch"
  /\ IF Extension(filename[r]) = <<"p","d","f">>
     THEN Goto(r, "pdf_open")
     ELSE Goto(r, "img_open")
  /\ UNCHANGED <<HAS_EASYOCR, ocr_reader, constructed, uploads, filename,
                 body_read, npages, reader, extracted, page_items,
                 total_item_count, exc, resp, raced>>

----------------------------------------------------------------------------
(* OCR helpers *)

\* where a helper continues once it has its reader
AfterReader(r) ==
  IF Extension(filename[r]) = <<"p","d","f">> THEN "pdf_page" ELSE "img_ocr"

\* simple_pdf_ocr: pdf_doc = fitz.open(pdf_path); all_text = {}; if HAS_EASYOCR: ...
PdfOpen(r) ==
  /\ running = r
  /\ pc[r] = "pdf_open"
  /\ \/ /\ \E n \in 0..MaxPages : npages' = [npages EXCEPT ![r] = n]
        /\ extracted' = [extracted EXCEPT ![r] = <<>>]
        /\ Goto(r, IF HAS_EASYOCR THEN "get_reader" ELSE "pdf_page")
        /\ exc' = exc
     \/ /\ Fails(r, "fitz.open")
        /\ UNCHANGED <<npages, extracted>>
  /\ UNCHANGED <<HAS_EASYOCR, ocr_reader, constructed, uploads, filename,
                 body_read, reader, page_items, total_item_count, resp, raced>>

\* simple_image_ocr: img = Image.open(...); img_cv = ...; if HAS_EASYOCR: ...
ImgOpen(r) ==
  /\ running = r
  /\ pc[r] = "img_open"
  /\ \/ /\ Goto(r, IF HAS_EASYOCR THEN "get_reader" ELSE "img_ocr")
        /\ exc' = exc
     \/ Fails(r, "Image.open")
  /\ UNCHANGED <<HAS_EASYOCR, ocr_reader, constructed, uploads, filename,
                 body_read, npages, reader, extracted, page_items,
                 total_item_count, resp, raced>>

\* get_ocr_reader: if _ocr_reader is None and HAS_EASYOCR:
GetReaderTest(r) ==
  /\ running = r
  /\ pc[r] = "get_reader"
  /\ IF ocr_reader = 0 /\ HAS_EASYOCR
     THEN Goto(r, "construct")
     ELSE Goto(r, "return_reader")
  /\ UNCHANGED <<HAS_EASYOCR, ocr_reader, constructed, uploads, filename,
                 body_read, npages, reader, extracted, page_items,
                 total_item_count, exc, resp, raced>>

\* get_ocr_reader: _ocr_reader = easyocr.Reader(['en'], gpu=False)
Construct(r) ==
  /\ running = r
  /\ pc[r] = "construct"
  /\ \/ /\ constructed' = constructed + 1
        /\ ocr_reader' = constructed + 1
        /\ raced' = (raced \/ \E q \in Reqs \ {r} : pc[q] \notin {"new", "done"})
        /\ Goto(r, "return_reader")
        /\ exc' = exc
     \/ /\ Fails(r, "easyocr.Reader")
        /\ UNCHANGED <<constructed, ocr_reader, raced>>
  /\ UNCHANGED <<HAS_EASYOCR, uploads, filename, body_read, npages, reader,
                 extracted, page_items, total_item_count, resp>>

\* get_ocr_reader: return _ocr_reader; the caller's reader = get_ocr_reader()
ReturnReader(r) ==
  /\ running = r
  /\ pc[r] = "return_reader"
  /\ reader' = [reader EXCEPT ![r] = ocr_reader]
  /\ Goto(r, AfterReader(r))
  /\ UNCHANGED <<HAS_EASYOCR, ocr_reader, constructed, uploads, filename,
                 body_read, npages, extracted, page_items, total_item_count,
                 exc, resp, raced>>

\* simple_pdf_ocr: one iteration of for page_num in range(len(pdf_doc)), or,
\* after the last, pdf_doc.close(); return all_text
PdfPage(r) ==
  /\ running = r
  /\ pc[r] = "pdf_page"
  /\ IF Len(extracted[r]) < npages[r]
     THEN \/ /\ \E text \in PageTexts :
                  extracted' = [extracted EXCEPT ![r] =
                     Append(@, [key |-> Len(@) + 1, text |-> text])]
             /\ Goto(r, "pdf_page")
             /\ exc' = exc
          \/ /\ Fails(r, "recognize")
             /\ extracted' = extracted
     ELSE /\ Goto(r, "cleanup")
          /\ UNCHANGED <<extracted, exc>>
  /\ UNCHANGED <<HAS_EASYOCR, ocr_reader, constructed, uploads, filename,
                 body_read, npages, reader, page_items, total_item_count, resp, raced>>

\* simple_image_ocr: reader.readtext / pytesseract.image_to_string; return text;
\* the caller's extracted = {"page_1": text}
ImgOcr(r) ==
  /\ running = r
  /\ pc[r] = "img_ocr"
  /\ \/ /\ \E text \in PageTexts :
             extracted' = [extracted EXCEPT ![r] =
                <<[key |-> "page_1", text |-> text]>>]
        /\ Goto(r, "cleanup")
        /\ exc' = exc
     \/ /\ Fails(r, "recognize")
        /\ extracted' = extracted
  /\ UNCHANGED <<HAS_EASYOCR, ocr_reader, constructed, uploads, filename,
                 body_read, npages, reader, page_items, total_item_count, resp, raced>>

----------------------------------------------------------------------------
(* ocr_webhook, after OCR *)

\* if os.path.exists(file_path): os.remove(file_path)
Cleanup(r) ==
  /\ running = r
  /\ pc[r] = "cleanup"
  /\ IF filename[r] \in uploads
     THEN uploads' = uploads \ {filename[r]}
     ELSE uploads' = uploads
  /\ Goto(r, "agg_init")
  /\ UNCHANGED <<HAS_EASYOCR, ocr_reader, constructed, filename, body_read,
                 npages, reader, extracted, page_items, total_item_count, exc,
                 resp, raced>>

\* page_items = []; total_item_count = 0
AggInit(r) ==
  /\ running = r
  /\ pc[r] = "agg_init"
  /\ page_items' = [page_items EXCEPT ![r] = <<>>]
  /\ total_item_count' = [total_item_count EXCEPT ![r] = 0]
  /\ Goto(r, "agg_loop")
  /\ UNCHANGED <<HAS_EASYOCR, ocr_reader, constructed, uploads, filename,
                 body_read, npages, reader, extracted, exc, resp, raced>>

PageNoFromZero(idx) == Str(idx)

\* "page_no": str(idx + 1)
PageNo(idx) == Str(idx + 1)

CountOfLastPage(total, bill_items) == Len(bill_items)

CountPages(total, bill_items) == total + 1

\* total_item_count += len(bill_items)
NewTotal(total, bill_items) == total + Len(bill_items)

\* one iteration of for idx, (page_no, text) in enumerate(extracted.items()),
\* or the loop's exit
AggLoop(r) ==
  /\ running = r
  /\ pc[r] = "agg_loop"
  /\ IF Len(page_items[r]) < Len(extracted[r])
     THEN LET idx == Len(page_items[r])
              text == extracted[r][idx + 1].text
              bill_items == extract_bill_items_regex(text)
          IN /\ total_item_count' = [total_item_count EXCEPT ![r] =
                                        NewTotal(@, bill_items)]
             /\ page_items' = [page_items EXCEPT ![r] =
                   Append(@, [page_no |-> PageNo(idx),
                              page_type |-> "Bill Detail",
                              bill_items |-> bill_items])]
             /\ Goto(r, "agg_loop")
     ELSE /\ Goto(r, "respond")
          /\ UNCHANGED <<page_items, total_item_count>>
  /\ UNCHANGED <<HAS_EASYOCR, ocr_reader, constructed, uploads, filename,
                 body_read, npages, reader, extracted, exc, resp, raced>>

\* return {"is_success": True, "token_usage": ..., "data": {...}}
Respond(r) ==
  /\ running = r
  /\ pc[r] = "respond"
  /\ resp' = [resp EXCEPT ![r] =
        [status |-> 200, is_success |-> TRUE,
         detail |-> [code |-> <<>>, text |-> ""],
         data |-> [pagewise_line_items |-> page_items[r],
                   total_item_count |-> total_item_count[r]]]]
  /\ Goto(r, "done")
  /\ UNCHANGED <<HAS_EASYOCR, ocr_reader, constructed, uploads, filename,
                 body_read, npages, reader, extracted, page_items,
                 total_item_count, exc, raced>>

\* a handler that answers a failure with what it has so far
ExceptPartial(r) ==
  /\ running = r
  /\ pc[r] = "except"
  /\ resp' = [resp EXCEPT ![r] =
        [status |-> 200, is_success |-> TRUE,
         detail |-> [code |-> <<>>, text |-> ""],
         data |-> [pagewise_line_items |-> page_items[r],
                   total_item_count |-> total_item_count[r]]]]
  /\ Goto(r, "done")
  /\ UNCHANGED <<HAS_EASYOCR, ocr_reader, constructed, uploads, filename,
                 body_read, npages, reader, extracted, page_items,
                 total_item_count, exc, raced>>

\* except Exception as e: raise HTTPException(status_code=500, detail=str(e))
Except(r) ==
  /\ running = r
  /\ pc[r] = "except"
  /\ resp' = [resp EXCEPT ![r] =
        [status |-> 500, is_success |-> FALSE,
         detail |-> StrExc(exc[r]), data |-> NoData]]
  /\ Goto(r, "done")
  /\ UNCHANGED <<HAS_EASYOCR, ocr_reader, constructed, uploads, filename,
                 body_read, npages, reader, extracted, page_items,
                 total_item_count, exc, raced>>

----------------------------------------------------------------------------
(* The server *)

Next ==
  \E r \in Reqs :
    \/ Start(r)
    \/ Resume(r)
    \/ Check(r)
    \/ Read(r)
    \/ ReadDone(r)
    \/ Write(r)
    \/ Dispatch(r)
    \/ PdfOpen(r)
    \/ ImgOpen(r)
    \/ GetReaderTest(r)
    \/ Construct(r)
    \/ ReturnReader(r)
    \/ PdfPage(r)
    \/ ImgOcr(r)
    \/ Cleanup(r)
    \/ AggInit(r)
    \/ AggLoop(r)
    \/ Respond(r)
    \/ Except(r)

Spec == Init /\ [][Next]_vars

----------------------------------------------------------------------------
(* One request from the end of OCR on, for each OCR result of a bounded set *)

RECURSIVE Concat(_)
Concat(ss) == IF ss = <<>> THEN <<>> ELSE Head(ss) \o Concat(Tail(ss))

NumberTriplePart == <<" ","2"," ","1",".","5"," ","3">>
DatePart == <<" ","1","/","2","/","3","4">>

\* the pieces page texts are put together from
Parts == {<<"a">>, <<" ">>, <<"|">>, <<"\n">>, NumberTriplePart, DatePart}

\* the texts OCR recognizes on an image
ImageTexts ==
  {Concat(f) : f \in UNION {[1..n -> Parts] : n \in 0..MaxParts}}

\* a page with no bill line
TextNoMatch == <<"T","o","t","a","l"," ","4","2">>
\* two lines, each matched by the pharmacy and by the hospital pattern
TextTwoLines ==
  <<"a"," ","2"," ","1",".","5"," ","3","\n","b"," ","4"," ","5"," ","6">>
\* two lines that only the hospital pattern matches
TextPipes ==
  <<"|"," ","1"," ","2"," ","3","\n","|"," ","4"," ","5"," ","6">>

\* the texts of the first pages and of the other pages of a PDF
PdfPageTexts ==
  {<<TextTwoLines, TextNoMatch>>, <<TextNoMatch, TextTwoLines>>,
   <<TextPipes, TextNoMatch>>}

\* the page texts of a PDF: the first j pages read one text, the others another
PdfTexts ==
  UNION {{[k \in 1..n |-> IF k <= j THEN tt[1] ELSE tt[2]] :
             j \in 0..n, tt \in PdfPageTexts} :
         n \in 0..MaxAggPages}

InitAggregate ==
  /\ HAS_EASYOCR = FALSE
  /\ ocr_reader = 0
  /\ constructed = 0
  /\ uploads = {}
  /\ running = 1
  /\ pc = [r \in Reqs |-> IF r = 1 THEN "agg_init" ELSE "new"]
  /\ body_read = [r \in Reqs |-> r = 1]
  /\ reader = [r \in Reqs |-> -1]
  /\ \/ \E t \in ImageTexts :
          /\ filename = [r \in Reqs |-> IF r = 1 THEN ScanJpg ELSE <<>>]
          /\ npages = [r \in Reqs |-> 0]
          /\ extracted = [r \in Reqs |->
                IF r = 1 THEN <<[key |-> "page_1", text |-> t]>> ELSE <<>>]
     \/ \E ts \in PdfTexts :
          /\ filename = [r \in Reqs |-> IF r = 1 THEN BillPdf ELSE <<>>]
          /\ npages = [r \in Reqs |-> IF r = 1 THEN Len(ts) ELSE 0]
          /\ extracted = [r \in Reqs |->
                IF r = 1 THEN [k \in 1..Len(ts) |-> [key |-> k, text |-> ts[k]]]
                ELSE <<>>]
  /\ page_items = [r \in Reqs |-> <<>>]
  /\ total_item_count = [r \in Reqs |-> 0]
  /\ exc = [r \in Reqs |-> NoExc]
  /\ resp = [r \in Reqs |-> NoResp]
  /\ raced = FALSE

NextAggregate ==
  \/ AggInit(1)
  \/ AggLoop(1)
  \/ Respond(1)

SpecAggregate == InitAggregate /\ [][NextAggregate]_vars

----------------------------------------------------------------------------
(* Definitions the properties use *)

Succeeded(r) == pc[r] = "done" /\ resp[r].status = 200

\* the request was accepted and a step of it raised
Failed(r) == allowed_file(filename[r]) /\ exc[r] # NoExc

\* the matches of pattern i as line items, computed pattern by pattern
PatternItems(text, i) ==
  LET ms == FindIter(text, patterns[i])
  IN [j \in 1..Len(ms) |-> LineItem(text, ms[j])]

\* the matches of pattern i are disjoint and go from left to right
InTextOrder(text, i) ==
  LET ms == FindIter(text, patterns[i])
  IN /\ \A j \in 1..Len(ms) : ms[j].start < ms[j].end
     /\ \A j \in 1..(Len(ms) - 1) : ms[j].end <= ms[j + 1].start

\* the first pharmacy match and the first hospital match are the same segment
SameSegmentTwice(text) ==
  LET ph == FindIter(text, PharmacyPattern)
      ho == FindIter(text, HospitalPattern)
  IN /\ ph # <<>> /\ ho # <<>>
     /\ ph[1].start = ho[1].start /\ ph[1].end = ho[1].end

NoPatternMatches(text) ==
  \A i \in 1..Len(patterns) : ~Search(text, patterns[i], 1).ok

RECURSIVE SumOfItemCounts(_)
SumOfItemCounts(pages) ==
  IF pages = <<>> THEN 0
  ELSE Len(Head(pages).bill_items) + SumOfItemCounts(Tail(pages))

RECURSIVE SplitLines(_)
\* the lines of a text
SplitLines(text) ==
  IF \E i \in 1..Len(text) : text[i] = "\n"
  THEN LET nl == CHOOSE i \in 1..Len(text) :
                    text[i] = "\n" /\ \A j \in 1..(i - 1) : text[j] # "\n"
       IN <<SubSeq(text, 1, nl - 1)>> \o SplitLines(SubSeq(text, nl + 1, Len(text)))
  ELSE <<text>>

\* how many lines of the text, taken alone, some pattern matches
MatchableLines(text) ==
  LET ls == SplitLines(text)
  IN Cardinality({j \in 1..Len(ls) : ~NoPatternMatches(ls[j])})

\* s is the decimal numeral of k >= 1
IsDecimalOf(s, k) ==
  /\ s # <<>>
  /\ \A i \in 1..Len(s) : IsDigit(s[i])
  /\ s[1] # "0"
  /\ DigitsValue(s) = k

----------------------------------------------------------------------------
(* Properties *)

\* C1: an upload whose filename has no dot, or whose extension is not allowed,
\* is answered with a client error (4xx), never a 5xx and never a success.
C1_RejectedWithClientError ==
  \A r \in Reqs :
    (pc[r] = "done" /\ ~allowed_file(filename[r]))
      => (resp[r].status \in 400..499 /\ ~resp[r].is_success)

\* C2: the steps of a request that is rejected for its file type change nothing
\* else: no file is written, the body is not read, no OCR function runs and the
\* reader singleton keeps its value.
C2_RejectionChangesNothing ==
  /\ [](\A r \in Reqs :
          (pc[r] \in {"except", "done"} /\ ~allowed_file(filename[r]))
            => (~body_read[r] /\ reader[r] = -1 /\ extracted[r] = <<>>))
  /\ [][\A r \in Reqs :
          (running = r /\ ~allowed_file(filename[r]))
            => /\ uploads' = uploads
               /\ body_read' = body_read
               /\ ocr_reader' = ocr_reader
               /\ constructed' = constructed
               /\ reader' = reader
               /\ extracted' = extracted]_vars

C2_Witness ==
  /\ pc[1] = "done" /\ filename[1] = ReportDocx /\ resp[1].status # 0
  /\ Succeeded(2)
  /\ ocr_reader = 1

\* C3: however concurrent first requests interleave, easyocr.Reader is
\* constructed at most once and every caller of get_ocr_reader gets that reader.
C3_ReaderConstructedOnce ==
  /\ constructed <= 1
  /\ \A r \in Reqs : reader[r] # -1 => (reader[r] = 1 /\ ocr_reader = 1)

C3_Witness ==
  /\ raced
  /\ reader[1] = 1 /\ reader[2] = 1
  /\ constructed = 1

\* C4: the extractor returns the pharmacy matches in text order, then the
\* hospital matches, then the investigation matches, nothing dropped or merged;
\* a segment both patterns match gives two entries, no match gives the empty list.
C4_ConcatenationInPatternOrder ==
  \A r \in Reqs :
    pc[r] = "respond" =>
      \A k \in 1..Len(extracted[r]) :
        LET text == extracted[r][k].text
            items == page_items[r][k].bill_items
        IN /\ items = PatternItems(text, 1) \o PatternItems(text, 2)
                        \o PatternItems(text, 3)
           /\ \A i \in 1..Len(patterns) : InTextOrder(text, i)
           /\ SameSegmentTwice(text) => Len(items) >= 2
           /\ NoPatternMatches(text) <=> items = <<>>

C4_Witness ==
  /\ pc[1] = "respond"
  /\ Len(extracted[1]) = 1
  /\ SameSegmentTwice(extracted[1][1].text)
  /\ Len(FindIter(extracted[1][1].text, InvestigationPattern)) = 1
  /\ Len(page_items[1][1].bill_items) = 3

\* C5: every line item the extractor returns has a non-empty item_name.
C5_NameNonEmpty ==
  \A r \in Reqs :
    \A k \in 1..Len(page_items[r]) :
      \A j \in 1..Len(page_items[r][k].bill_items) :
        page_items[r][k].bill_items[j].item_name # <<>>

\* what C6 is about: two pages, two matchable lines on the first, no match on
\* the second
TwoLinesThenNone(r) ==
  /\ Succeeded(r)
  /\ Len(extracted[r]) = 2
  /\ MatchableLines(extracted[r][1].text) = 2
  /\ MatchableLines(extracted[r][2].text) = 0
  /\ NoPatternMatches(extracted[r][2].text)

\* C6, as stated: with two matchable lines on page 1 and none on page 2,
\* total_item_count is 2, there are 2 page entries and the second is empty.
C6_TwoLinesCountTwo ==
  \A r \in Reqs :
    TwoLinesThenNone(r) =>
      /\ resp[r].data.total_item_count = 2
      /\ Len(resp[r].data.pagewise_line_items) = 2
      /\ resp[r].data.pagewise_line_items[2].bill_items = <<>>

\* C6, amended: total_item_count is the number of pattern matches on page 1,
\* one for each pattern that matches a line; there are 2 page entries and the
\* second is empty.
C6_TwoLinesCountMatches ==
  \A r \in Reqs :
    TwoLinesThenNone(r) =>
      LET text == extracted[r][1].text
      IN /\ resp[r].data.total_item_count =
              Len(FindIter(text, PharmacyPattern))
                + Len(FindIter(text, HospitalPattern))
                + Len(FindIter(text, InvestigationPattern))
         /\ Len(resp[r].data.pagewise_line_items) = 2
         /\ resp[r].data.pagewise_line_items[2].bill_items = <<>>

C6_Witness ==
  /\ TwoLinesThenNone(1)
  /\ resp[1].data.total_item_count = 4

\* C7: a success response has one entry per OCR page, in OCR order, the k-th
\* with page_no the decimal string of k whatever key OCR used, and page_type
\* "Bill Detail".
C7_SequentialPageNumbers ==
  \A r \in Reqs :
    Succeeded(r) =>
      LET pages == resp[r].data.pagewise_line_items
      IN /\ Len(pages) = Len(extracted[r])
         /\ \A k \in 1..Len(pages) :
              /\ IsDecimalOf(pages[k].page_no, k)
              /\ pages[k].page_type = "Bill Detail"
              /\ pages[k].bill_items =
                   extract_bill_items_regex(extracted[r][k].text)

C7_Witness ==
  /\ Succeeded(1)
  /\ Len(resp[1].data.pagewise_line_items) = MaxAggPages
  /\ resp[1].data.pagewise_line_items[MaxAggPages].bill_items # <<>>

\* C8: after each iteration of the aggregation loop, and in every success
\* response, total_item_count is the sum of the lengths of the bill_items of the
\* entries so far; a page without items adds 0 and still has its entry.
C8_TotalIsSumOfPages ==
  \A r \in Reqs :
    /\ pc[r] \in {"agg_loop", "respond"} =>
         /\ total_item_count[r] = SumOfItemCounts(page_items[r])
         /\ Len(page_items[r]) <= Len(extracted[r])
    /\ pc[r] = "respond" => Len(page_items[r]) = Len(extracted[r])
    /\ Succeeded(r) =>
         /\ resp[r].data.total_item_count =
              SumOfItemCounts(resp[r].data.pagewise_line_items)
         /\ Len(resp[r].data.pagewise_line_items) = Len(extracted[r])

C8_Witness ==
  /\ pc[1] = "agg_loop"
  /\ Len(page_items[1]) = 3
  /\ page_items[1][1].bill_items = <<>>
  /\ total_item_count[1] = 8

\* C9: when a step of an accepted request fails, the request ends with a 500
\* that carries the failure's message and no success envelope, and after the
\* failure the handler does nothing but answer.
C9_FailureIsServerError ==
  /\ [](\A r \in Reqs :
          (pc[r] = "done" /\ Failed(r))
            => /\ resp[r].status = 500
               /\ resp[r].detail = [code |-> <<>>, text |-> exc[r].detail]
               /\ ~resp[r].is_success
               /\ resp[r].data = NoData)
  /\ [][\A r \in Reqs :
          (pc[r] = "except" /\ Failed(r))
            => /\ pc'[r] \in {"except", "done"}
               /\ uploads' = uploads
               /\ extracted'[r] = extracted[r]
               /\ page_items'[r] = page_items[r]]_vars

C9_Witness ==
  /\ pc[1] = "done" /\ Failed(1)
  /\ exc[1].detail = "recognize"
  /\ Len(extracted[1]) = 1 /\ npages[1] = 2
  /\ resp[1].status = 500

\* C10: once a request has finished, with a success or with an error, the file
\* it wrote to the upload folder under the uploaded filename is gone.
C10_TempFileRemoved ==
  \A r \in Reqs :
    (pc[r] = "done" /\ \A q \in Reqs \ {r} : filename[q] # filename[r])
      => filename[r] \notin uploads

====
